---- MODULE Spec2Model ----
(***************************************************************************)
(* Model of the 30-day visit forecast of streamlit_app.py (tab3) and of    *)
(* the page script around it.                                              *)
(*                                                                         *)
(* Dates are proleptic Gregorian ordinals (datetime.date.toordinal), NaT   *)
(* is the ordinal 0.  Floats are modelled as exact rationals <<n, d>> with *)
(* d > 0 in lowest terms; NaN is <<0, 0>> and every comparison with NaN is *)
(* false, as in IEEE-754.                                                  *)
(***************************************************************************)
EXTENDS Integers, Sequences, FiniteSets, TLC

(***************************************************************************)
(* Bounds of the model.                                                    *)
(***************************************************************************)
MaxCount == 3

(***************************************************************************)
(* Program constants.                                                      *)
(***************************************************************************)
HorizonDays == 30
RecentWindow == 30
YearBackDays == 365
DayWindow == 5

NaT == 0

(***************************************************************************)
(* Rational arithmetic standing for Python floats.                         *)
(***************************************************************************)
RECURSIVE GCD(_, _)
GCD(a, b) == IF b = 0 THEN a ELSE GCD(b, a % b)

Abs(x) == IF x < 0 THEN 0 - x ELSE x

NaN == <<0, 0>>

IsNaN(x) == x[2] = 0

Rat(n, d) ==
    IF d = 0 THEN NaN
    ELSE LET g == GCD(Abs(n), Abs(d))
             s == IF d < 0 THEN 0 - 1 ELSE 1
         IN  <<(s * n) \div g, (s * d) \div g>>

RMul(x, y) == IF IsNaN(x) \/ IsNaN(y) THEN NaN ELSE Rat(x[1] * y[1], x[2] * y[2])

RSub(x, y) == IF IsNaN(x) \/ IsNaN(y) THEN NaN ELSE Rat(x[1] * y[2] - y[1] * x[2], x[2] * y[2])

RLess(x, y) == ~IsNaN(x) /\ ~IsNaN(y) /\ x[1] * y[2] < y[1] * x[2]

RGeq(x, y) == ~IsNaN(x) /\ ~IsNaN(y) /\ x[1] * y[2] >= y[1] * x[2]

RECURSIVE Pow(_, _)
Pow(b, e) == IF e <= 0 THEN 1 ELSE b * Pow(b, e - 1)

RECURSIVE SumSeq(_)
SumSeq(s) == IF s = <<>> THEN 0 ELSE Head(s) + SumSeq(Tail(s))

\* pandas Series.mean(): NaN for an empty series
Mean(s) == Rat(SumSeq(s), Len(s))

(***************************************************************************)
(* Calendar arithmetic of datetime / pandas Timestamp.                     *)
(***************************************************************************)
IsLeap(y) == y % 4 = 0 /\ (y % 100 # 0 \/ y % 400 = 0)

DaysBeforeYear(y) == (y - 1) * 365 + (y - 1) \div 4 - (y - 1) \div 100 + (y - 1) \div 400

DaysInMonth(y, m) ==
    IF m = 2 THEN (IF IsLeap(y) THEN 29 ELSE 28)
    ELSE IF m \in {4, 6, 9, 11} THEN 30 ELSE 31

RECURSIVE DaysBeforeMonth(_, _)
DaysBeforeMonth(y, m) == IF m <= 1 THEN 0 ELSE DaysBeforeMonth(y, m - 1) + DaysInMonth(y, m - 1)

Ymd2Ord(y, m, d) == DaysBeforeYear(y) + DaysBeforeMonth(y, m) + d

\* datetime._ord2ymd
Ord2Ymd(ord) ==
    LET n0   == ord - 1
        n400 == n0 \div 146097
        r400 == n0 % 146097
        n100 == r400 \div 36524
        r100 == r400 % 36524
        n4   == r100 \div 1461
        r4   == r100 % 1461
        n1   == r4 \div 365
        r1   == r4 % 365
        y0   == n400 * 400 + 1 + n100 * 100 + n4 * 4 + n1
    IN  IF n1 = 4 \/ n100 = 4
        THEN [year |-> y0 - 1, month |-> 12, day |-> 31]
        ELSE LET m0  == (r1 + 50) \div 32
                 pre == DaysBeforeMonth(y0, m0)
                 m   == IF pre > r1 THEN m0 - 1 ELSE m0
                 p   == IF pre > r1 THEN pre - DaysInMonth(y0, m0 - 1) ELSE pre
             IN  [year |-> y0, month |-> m, day |-> r1 - p + 1]

\* NaT.year, NaT.month, NaT.day and NaT.weekday() are NaN; -1 stands for it
YearOf(d) == IF d = NaT THEN 0 - 1 ELSE Ord2Ymd(d).year

MonthOf(d) == IF d = NaT THEN 0 - 1 ELSE Ord2Ymd(d).month

DayOf(d) == IF d = NaT THEN 0 - 1 ELSE Ord2Ymd(d).day

Weekday(d) == IF d = NaT THEN 0 - 1 ELSE (d + 6) % 7

\* Timestamp + timedelta(days = k); NaT absorbs
AddDays(d, k) == IF d = NaT THEN NaT ELSE d + k

(***************************************************************************)
(* State: the names the script binds in tab3 and what the page has drawn.  *)
(* exponents_seen records the values years_diff has taken in the loop.     *)
(***************************************************************************)
VARIABLES pc, store_data, overall_avg, last_date, future_dates,
          weekday_avgs, recent_avg, future_preds, future_date, last_year_date,
          similar_dates, branch, base_pred, years_diff, trend_factor,
          seasonal_factor, pred_value, future_data, line_chart, weekday_chart,
          csv, error_shown, raised_at, summary_shown, exponents_seen

vars == <<pc, store_data, overall_avg, last_date, future_dates,
          weekday_avgs, recent_avg, future_preds, future_date, last_year_date,
          similar_dates, branch, base_pred, years_diff, trend_factor,
          seasonal_factor, pred_value, future_data, line_chart, weekday_chart,
          csv, error_shown, raised_at, summary_shown, exponents_seen>>

locals == <<store_data, overall_avg, last_date, future_dates, weekday_avgs,
            recent_avg, future_preds, future_date, last_year_date,
            similar_dates, branch, base_pred, years_diff, trend_factor,
            seasonal_factor, pred_value, future_data>>

iteration == <<future_date, last_year_date, similar_dates, branch, base_pred,
               years_diff, trend_factor, seasonal_factor, pred_value>>

page == <<line_chart, weekday_chart, csv, error_shown, raised_at, summary_shown>>

(***************************************************************************)
(* Rows of visits_df of the selected store: n records ending at lastd, one *)
(* every stride days, the first k with count a and the others with count   *)
(* b, in ascending or descending table order.  n = 0 is the selection of a *)
(* store name that matches no row (a NULL DEP_NAME).                       *)
(***************************************************************************)
Counts == 0..MaxCount

LastDates == { Ymd2Ord(2023, 12, 19), Ymd2Ord(2024, 12, 5), Ymd2Ord(2024, 7, 14) }

Lens == {0, 1, 3, 13, 30, 50}

Strides == {1, 7, 30}

Splits(n) == {n \div 2, n - (n \div 4)}

Rows(lastd, n, stride, a, b, k, rev) ==
    [i \in 1..n |->
        LET j == IF rev THEN n + 1 - i ELSE i
        IN  [date |-> lastd - (n - j) * stride,
             visitors |-> IF j <= k THEN a ELSE b]]

(***************************************************************************)
(* Helpers of the forecast.                                                *)
(***************************************************************************)
\* DataFrame.sort_values('DATE_KST')
RECURSIVE InsertByDate(_, _)
InsertByDate(r, s) ==
    IF s = <<>> THEN <<r>>
    ELSE IF r.date <= Head(s).date THEN <<r>> \o s
    ELSE <<Head(s)>> \o InsertByDate(r, Tail(s))

RECURSIVE SortByDate(_)
SortByDate(s) == IF s = <<>> THEN <<>> ELSE InsertByDate(Head(s), SortByDate(Tail(s)))

Visitors(s) == [i \in 1..Len(s) |-> s[i].visitors]

\* dates.max(): NaT for an empty series
MaxDate(s) ==
    IF s = <<>> THEN NaT
    ELSE CHOOSE d \in {s[i].date : i \in 1..Len(s)} :
            \A i \in 1..Len(s) : s[i].date <= d

\* range(0, 30) for range(1, 31)
FutureDatesFromLast(last) == [i \in 1..HorizonDays |-> AddDays(last, i - 1)]

FutureDates(last) == [i \in 1..HorizonDays |-> AddDays(last, i)]

\* groupby(DATE_KST.dt.weekday)['visitors'].mean().to_dict()
WeekdayAvgs(s) ==
    [w \in {Weekday(s[i].date) : i \in 1..Len(s)} |->
        LET OnDay(r) == Weekday(r.date) = w
        IN  Mean(Visitors(SelectSeq(s, OnDay)))]

\* visits[-30:].mean() if len(visits) >= 30 else overall_avg
RecentAvg(s, overall) ==
    IF Len(s) >= RecentWindow
    THEN Mean(Visitors(SubSeq(s, Len(s) - RecentWindow + 1, Len(s))))
    ELSE overall

LastYearDate(fd) == AddDays(fd, 0 - YearBackDays)

\* same month as last_year_date and day of month within 5 of its day
SimilarDatesSameYear(s, lyd) ==
    LET ly     == YearOf(lyd)
        lm     == MonthOf(lyd)
        ld     == DayOf(lyd)
        Sim(r) == /\ YearOf(r.date) = ly
                  /\ MonthOf(r.date) = lm
                  /\ Abs(DayOf(r.date) - ld) <= DayWindow
    IN  SelectSeq(s, Sim)

SimilarDates(s, lyd) ==
    LET lm     == MonthOf(lyd)
        ld     == DayOf(lyd)
        Sim(r) == /\ MonthOf(r.date) = lm
                  /\ Abs(DayOf(r.date) - ld) <= DayWindow
    IN  SelectSeq(s, Sim)

Weight(r, wd) == IF Weekday(r.date) = wd THEN 2 ELSE 1

RECURSIVE WeightedSum(_, _)
WeightedSum(s, wd) ==
    IF s = <<>> THEN 0
    ELSE Head(s).visitors * Weight(Head(s), wd) + WeightedSum(Tail(s), wd)

RECURSIVE WeightTotal(_, _)
WeightTotal(s, wd) ==
    IF s = <<>> THEN 0 ELSE Weight(Head(s), wd) + WeightTotal(Tail(s), wd)

\* np.average(visitors, weights = weight)
WeightedAverage(s, wd) == Rat(WeightedSum(s, wd), WeightTotal(s, wd))

\* the exponent fixed to one year
YearsDiffFixed(fd, lyd) == 1

YearsDiff(fd, lyd) == YearOf(fd) - YearOf(lyd)

\* 1.1 ** years_diff
TrendFactor(yd) == Rat(Pow(11, yd), Pow(10, yd))

\* 0.8 for 1.2 in the summer weeks
SeasonalFactorSummerDown(fd) ==
    IF MonthOf(fd) = 12 /\ DayOf(fd) \in 20..25 THEN Rat(13, 10)
    ELSE IF MonthOf(fd) \in {7, 8} /\ DayOf(fd) \in 15..30 THEN Rat(8, 10)
    ELSE Rat(1, 1)

SeasonalFactor(fd) ==
    IF MonthOf(fd) = 12 /\ DayOf(fd) \in 20..25 THEN Rat(13, 10)
    ELSE IF MonthOf(fd) \in {7, 8} /\ DayOf(fd) \in 15..30 THEN Rat(12, 10)
    ELSE Rat(1, 1)

FallbackBranch(avgs, fd) == IF Weekday(fd) \in DOMAIN avgs THEN "weekday" ELSE "recent"

\* the default without its 0.9
FallbackBaseNoDiscount(avgs, recent, fd) ==
    IF Weekday(fd) \in DOMAIN avgs THEN avgs[Weekday(fd)] ELSE recent

FallbackBase(avgs, recent, fd) ==
    IF Weekday(fd) \in DOMAIN avgs THEN avgs[Weekday(fd)] ELSE RMul(recent, Rat(9, 10))

\* no correction at all
FloorCorrectionNone(pv, recent) == pv

\* pred_value -= recent_avg * 0.8 for pred_value = recent_avg * 0.8
FloorCorrectionSubtract(pv, recent) ==
    IF RLess(pv, RMul(recent, Rat(1, 2))) THEN RSub(pv, RMul(recent, Rat(8, 10))) ELSE pv

FloorCorrection(pv, recent) ==
    IF RLess(pv, RMul(recent, Rat(1, 2))) THEN RMul(recent, Rat(8, 10)) ELSE pv

(***************************************************************************)
(* Initial state: the script is about to load the data.                    *)
(***************************************************************************)
Init ==
    /\ pc = "load"
    /\ store_data = <<>>
    /\ overall_avg = NaN
    /\ last_date = NaT
    /\ future_dates = <<>>
    /\ weekday_avgs = <<>>
    /\ recent_avg = NaN
    /\ future_preds = <<>>
    /\ future_date = NaT
    /\ last_year_date = NaT
    /\ similar_dates = <<>>
    /\ branch = "none"
    /\ base_pred = NaN
    /\ years_diff = 0 - 1
    /\ trend_factor = NaN
    /\ seasonal_factor = NaN
    /\ pred_value = NaN
    /\ future_data = <<>>
    /\ line_chart = FALSE
    /\ weekday_chart = FALSE
    /\ csv = <<>>
    /\ error_shown = FALSE
    /\ raised_at = "none"
    /\ summary_shown = FALSE
    /\ exponents_seen = {}

(***************************************************************************)
(* Actions.                                                                *)
(***************************************************************************)
\* lines 54-66: the data is loaded
LoadData ==
    /\ pc = "load"
    /\ pc' = "tab3"
    /\ UNCHANGED <<locals, page, exponents_seen>>

\* lines 67-69: the load raised; st.error and st.stop
LoadFail ==
    /\ pc = "load"
    /\ pc' = "stopped"
    /\ error_shown' = TRUE
    /\ UNCHANGED <<locals, line_chart, weekday_chart, csv,
                   raised_at, summary_shown, exponents_seen>>

\* lines 316-356: selection of the store, sort and the precomputation
Tab3Start ==
    /\ pc = "tab3"
    /\ \E lastd \in LastDates, n \in Lens, stride \in Strides,
          a \in Counts, b \in Counts, rev \in BOOLEAN :
       \E k \in Splits(n) :
       LET sd == SortByDate(Rows(lastd, n, stride, a, b, k, rev))
           oa == Mean(Visitors(sd))
           ld == MaxDate(sd)
       IN  /\ store_data' = sd
           /\ overall_avg' = oa
           /\ last_date' = ld
           /\ future_dates' = FutureDates(ld)
           /\ future_preds' = <<>>
           /\ weekday_avgs' = WeekdayAvgs(sd)
           /\ recent_avg' = RecentAvg(sd, oa)
    /\ exponents_seen' = {}
    /\ pc' = "loop"
    /\ UNCHANGED <<iteration, future_data, page>>

\* lines 358-414: one iteration of the loop over future_dates
ForecastStep ==
    /\ pc = "loop"
    /\ Len(future_preds) < Len(future_dates)
    /\ LET fd  == future_dates[Len(future_preds) + 1]
           lyd == LastYearDate(fd)
           sim == SimilarDates(store_data, lyd)
           sf  == SeasonalFactor(fd)
       IN  /\ future_date' = fd
           /\ last_year_date' = lyd
           /\ similar_dates' = sim
           /\ seasonal_factor' = sf
           /\ IF Len(sim) > 0
              THEN LET bp == WeightedAverage(sim, Weekday(fd))
                       yd == YearsDiff(fd, lyd)
                       tf == TrendFactor(yd)
                       pv == FloorCorrection(RMul(RMul(bp, tf), sf), recent_avg)
                   IN  /\ branch' = "similar"
                       /\ base_pred' = bp
                       /\ years_diff' = yd
                       /\ trend_factor' = tf
                       /\ exponents_seen' = exponents_seen \cup {yd}
                       /\ pred_value' = pv
                       /\ future_preds' = Append(future_preds, pv)
              ELSE LET bp == FallbackBase(weekday_avgs, recent_avg, fd)
                       pv == FloorCorrection(RMul(bp, sf), recent_avg)
                   IN  /\ branch' = FallbackBranch(weekday_avgs, fd)
                       /\ base_pred' = bp
                       /\ pred_value' = pv
                       /\ future_preds' = Append(future_preds, pv)
                       /\ UNCHANGED <<years_diff, trend_factor, exponents_seen>>
    /\ pc' = IF Len(future_preds') = Len(future_dates) THEN "render_line" ELSE "loop"
    /\ UNCHANGED <<store_data, overall_avg, last_date, future_dates,
                   weekday_avgs, recent_avg, future_data, page>>

\* lines 416-452: past_data, future_data and the line chart
RenderLineChart ==
    /\ pc = "render_line"
    /\ future_data' = [i \in 1..Len(future_dates) |->
                          [date |-> future_dates[i], visitors |-> future_preds[i]]]
    /\ line_chart' = TRUE
    /\ pc' = "render_weekday"
    /\ UNCHANGED <<store_data, overall_avg, last_date, future_dates,
                   weekday_avgs, recent_avg, future_preds, iteration,
                   weekday_chart, csv, error_shown, raised_at, summary_shown,
                   exponents_seen>>

\* lines 454-480: the chart of the forecast by weekday
RenderWeekdayChart ==
    /\ pc = "render_weekday"
    /\ weekday_chart' = TRUE
    /\ pc' = "render_csv"
    /\ UNCHANGED <<locals, line_chart, csv, error_shown, raised_at,
                   summary_shown, exponents_seen>>

\* lines 482-505: the CSV download of future_data[['date', 'visitors']]
RenderCsv ==
    /\ pc = "render_csv"
    /\ csv' = future_data
    /\ pc' = "summary"
    /\ UNCHANGED <<locals, line_chart, weekday_chart, error_shown,
                   raised_at, summary_shown, exponents_seen>>

TryBlock == {"tab3", "loop", "render_line", "render_weekday", "render_csv"}

\* the try block without its handler: the script stops at the exception
Tab3Uncaught ==
    /\ pc \in TryBlock
    /\ raised_at' = pc
    /\ pc' = "stopped"
    /\ UNCHANGED <<locals, line_chart, weekday_chart, csv, error_shown,
                   summary_shown, exponents_seen>>

\* lines 507-509: a statement of the try block raised
Tab3Except ==
    /\ pc \in TryBlock
    /\ raised_at' = pc
    /\ error_shown' = TRUE
    /\ pc' = "summary"
    /\ UNCHANGED <<locals, line_chart, weekday_chart, csv, summary_shown,
                   exponents_seen>>

\* lines 511-546: the summary after the tabs
Summary ==
    /\ pc = "summary"
    /\ summary_shown' = TRUE
    /\ pc' = "done"
    /\ UNCHANGED <<locals, line_chart, weekday_chart, csv,
                   error_shown, raised_at, exponents_seen>>

Next ==
    \/ LoadData
    \/ LoadFail
    \/ Tab3Start
    \/ ForecastStep
    \/ RenderLineChart
    \/ RenderWeekdayChart
    \/ RenderCsv
    \/ Tab3Except
    \/ Summary

Spec == Init /\ [][Next]_vars

(***************************************************************************)
(* The date arithmetic of the loop on its own: lines 358-360 and 378-380   *)
(* applied to every day of ScanFirst .. ScanLast in turn.                  *)
(***************************************************************************)
ScanFirst == Ymd2Ord(2023, 1, 1)

ScanLast == Ymd2Ord(2025, 12, 31)

ScanInit ==
    /\ pc = "scan"
    /\ store_data = <<>>
    /\ overall_avg = NaN
    /\ last_date = NaT
    /\ future_dates = <<>>
    /\ weekday_avgs = <<>>
    /\ recent_avg = NaN
    /\ future_preds = <<>>
    /\ future_date = NaT
    /\ last_year_date = NaT
    /\ similar_dates = <<>>
    /\ branch = "none"
    /\ base_pred = NaN
    /\ years_diff = 0 - 1
    /\ trend_factor = NaN
    /\ seasonal_factor = NaN
    /\ pred_value = NaN
    /\ future_data = <<>>
    /\ line_chart = FALSE
    /\ weekday_chart = FALSE
    /\ csv = <<>>
    /\ error_shown = FALSE
    /\ raised_at = "none"
    /\ summary_shown = FALSE
    /\ exponents_seen = {}

ScanDate ==
    /\ pc = "scan"
    /\ future_date < ScanLast
    /\ LET fd  == IF future_date = NaT THEN ScanFirst ELSE future_date + 1
           lyd == LastYearDate(fd)
           yd  == YearsDiff(fd, lyd)
       IN  /\ future_date' = fd
           /\ last_year_date' = lyd
           /\ years_diff' = yd
           /\ trend_factor' = TrendFactor(yd)
           /\ exponents_seen' = exponents_seen \cup {yd}
    /\ UNCHANGED <<pc, store_data, overall_avg, last_date, future_dates,
                   weekday_avgs, recent_avg, future_preds, similar_dates, branch,
                   base_pred, seasonal_factor, pred_value, future_data, page>>

ScanNext == ScanDate

SpecScan == ScanInit /\ [][ScanNext]_vars

(***************************************************************************)
(* Vocabulary of the properties.                                           *)
(***************************************************************************)
NonEmptySeries == store_data # <<>>

NonNegativeCounts == \A i \in 1..Len(store_data) : store_data[i].visitors >= 0

\* an iteration of the loop has run: the iteration names are bound
PointComputed == branch # "none"

\* the loop has run to its end
LoopFinished == pc \in {"render_line", "render_weekday", "render_csv"}
                \/ (pc \in {"summary", "done"} /\ raised_at \notin {"tab3", "loop"})

Half(x) == RMul(x, Rat(1, 2))

InChristmas(fd) == MonthOf(fd) = 12 /\ DayOf(fd) >= 20 /\ DayOf(fd) <= 25

InSummer(fd) == (MonthOf(fd) = 7 \/ MonthOf(fd) = 8) /\ DayOf(fd) >= 15 /\ DayOf(fd) <= 30

InSeason(fd) == InChristmas(fd) \/ InSummer(fd)

\* trend applied to base_pred in the iteration that has just run
TrendUsed == IF branch = "similar" THEN trend_factor ELSE Rat(1, 1)

\* pred_value before the floor correction, and what factor 1.0 would give
RawPred == RMul(RMul(base_pred, TrendUsed), seasonal_factor)

UnscaledPred == RMul(base_pred, TrendUsed)

Floored(x) == IF RLess(x, Half(recent_avg)) THEN RMul(recent_avg, Rat(4, 5)) ELSE x

RECURSIVE SumVisitorsFrom(_, _)
SumVisitorsFrom(s, lo) ==
    IF lo > Len(s) THEN 0 ELSE s[lo].visitors + SumVisitorsFrom(s, lo + 1)

MeanOfLast(s, k) == Rat(SumVisitorsFrom(s, Len(s) - k + 1), k)

ExpectedRecentAvg ==
    IF Len(store_data) >= 30 THEN MeanOfLast(store_data, 30)
    ELSE MeanOfLast(store_data, Len(store_data))

IsSimilar(r) == /\ MonthOf(r.date) = MonthOf(last_year_date)
                /\ DayOf(r.date) - DayOf(last_year_date) <= 5
                /\ DayOf(last_year_date) - DayOf(r.date) <= 5

SimilarIdx == {i \in 1..Len(store_data) : IsSimilar(store_data[i])}

OnTargetWeekday(r) == Weekday(r.date) = Weekday(future_date)

RECURSIVE SumOverIdx(_, _, _)
SumOverIdx(s, I, double) ==
    IF I = {} THEN 0
    ELSE LET i == CHOOSE j \in I : TRUE
             w == IF double /\ OnTargetWeekday(s[i]) THEN 2 ELSE 1
         IN  w * s[i].visitors + SumOverIdx(s, I \ {i}, double)

WeekdayIdx == {i \in 1..Len(store_data) : OnTargetWeekday(store_data[i])}

(***************************************************************************)
(* C1: for a non-empty series the forecast has exactly 30 points, dated    *)
(* last_date + 1 .. last_date + 30 where last_date is the latest observed  *)
(* date, consecutive and strictly increasing, one predicted value each.    *)
(***************************************************************************)
C1_ThirtyConsecutiveDays ==
    (NonEmptySeries /\ LoopFinished) =>
        /\ \A i \in 1..Len(store_data) : store_data[i].date <= last_date
        /\ \E i \in 1..Len(store_data) : store_data[i].date = last_date
        /\ Len(future_dates) = 30
        /\ Len(future_preds) = 30
        /\ \A i \in 1..30 : future_dates[i] = last_date + i
        /\ \A i \in 1..29 : future_dates[i + 1] = future_dates[i] + 1
        /\ \A i \in 1..30 : ~IsNaN(future_preds[i])
        /\ line_chart =>
              /\ Len(future_data) = 30
              /\ \A i \in 1..30 : future_data[i] =
                    [date |-> last_date + i, visitors |-> future_preds[i]]

C1_Witness ==
    /\ pc = "done"
    /\ raised_at = "none"
    /\ Len(store_data) = 50
    /\ Len(csv) = 30
    /\ MonthOf(csv[1].date) # MonthOf(csv[30].date)
    /\ \E i \in 1..30 : RLess(Rat(0, 1), csv[i].visitors)

(***************************************************************************)
(* C2: with an empty series the forecast fails and emits no forecast       *)
(* point.                                                                  *)
(***************************************************************************)
C2_EmptySeriesFails ==
    (store_data = <<>> /\ pc \notin {"load", "stopped", "tab3"}) =>
        /\ Len(future_preds) = 0
        /\ future_data = <<>>
        /\ pc \in {"summary", "done"} => error_shown

(***************************************************************************)
(* C3: floor law.  With non-negative counts every emitted value is at      *)
(* least recent_avg * 0.5, recent_avg being the mean of the last 30        *)
(* records when 30 exist and of all records otherwise; a value below the   *)
(* threshold is emitted as recent_avg * 0.8.                               *)
(***************************************************************************)
C3_FloorLaw ==
    (NonEmptySeries /\ NonNegativeCounts /\ PointComputed) =>
        /\ recent_avg = ExpectedRecentAvg
        /\ \A i \in 1..Len(future_preds) : RGeq(future_preds[i], Half(recent_avg))
        /\ pred_value = future_preds[Len(future_preds)]
        /\ RLess(RawPred, Half(recent_avg)) => pred_value = RMul(recent_avg, Rat(4, 5))
        /\ ~RLess(RawPred, Half(recent_avg)) => pred_value = RawPred

C3_Witness ==
    /\ PointComputed
    /\ Len(store_data) >= 30
    /\ recent_avg # overall_avg
    /\ RLess(Rat(0, 1), recent_avg)
    /\ RLess(RawPred, Half(recent_avg))
    /\ pred_value = RMul(recent_avg, Rat(4, 5))

(***************************************************************************)
(* C4: with non-negative counts every predicted value is >= 0, whichever   *)
(* branch produced it.                                                     *)
(***************************************************************************)
C4_NonNegativePredictions ==
    (NonEmptySeries /\ NonNegativeCounts) =>
        \A i \in 1..Len(future_preds) : RGeq(future_preds[i], Rat(0, 1))

C4_Witness ==
    /\ pc = "done"
    /\ Len(future_preds) = 30
    /\ RLess(RawPred, Half(recent_avg))
    /\ \E i \in 1..30 : RLess(Rat(0, 1), future_preds[i])

(***************************************************************************)
(* C5 as stated: in Dec 20-25 and Jul/Aug 15-30 the emitted value (after   *)
(* the floor correction) is at least the value emitted for the same        *)
(* base_pred, trend and recent_avg with seasonal factor 1.0.               *)
(***************************************************************************)
C5_SeasonalNeverLowersEmitted ==
    (NonEmptySeries /\ NonNegativeCounts /\ PointComputed /\ InSeason(future_date)) =>
        RGeq(pred_value, Floored(UnscaledPred))

\* the seasonal point escapes the floor correction that factor 1.0 incurs
EscapesFloor == /\ RLess(UnscaledPred, Half(recent_avg))
                /\ ~RLess(RawPred, Half(recent_avg))

(***************************************************************************)
(* C5 amended: the factor is 1.3 in Dec 20-25, 1.2 in Jul/Aug 15-30 and    *)
(* 1.0 otherwise, and with non-negative counts it never lowers the value   *)
(* before the floor correction.  The emitted value is at least the one     *)
(* factor 1.0 would emit, except when base_pred * trend is below           *)
(* recent_avg * 0.5 and the scaled value is not: then the scaled value is  *)
(* emitted as it is, below the recent_avg * 0.8 that factor 1.0 yields.    *)
(***************************************************************************)
C5_SeasonalLawAmended ==
    (NonEmptySeries /\ NonNegativeCounts /\ PointComputed) =>
        /\ InChristmas(future_date) => seasonal_factor = Rat(13, 10)
        /\ InSummer(future_date) => seasonal_factor = Rat(6, 5)
        /\ ~InSeason(future_date) => seasonal_factor = Rat(1, 1)
        /\ RGeq(RawPred, UnscaledPred)
        /\ ~EscapesFloor => RGeq(pred_value, Floored(UnscaledPred))
        /\ EscapesFloor =>
              /\ pred_value = RawPred
              /\ RLess(pred_value, RMul(recent_avg, Rat(4, 5)))
              /\ Floored(UnscaledPred) = RMul(recent_avg, Rat(4, 5))

C5_Witness ==
    /\ PointComputed
    /\ NonEmptySeries
    /\ InChristmas(future_date)
    /\ branch = "similar"
    /\ EscapesFloor

C9_ExponentTakesZeroOneTwo ==
    (pc = "scan" /\ future_date = ScanLast) => exponents_seen = {0, 1, 2}

(***************************************************************************)
(* C9 amended: the trend exponent is the target's year minus the year of   *)
(* the date 365 days before it; it is 0 when the target is December 31 of  *)
(* a leap year and 1 for every other target date, never 2, so trend_factor *)
(* is 1.1^0 or 1.1^1.                                                      *)
(***************************************************************************)
C9_ExponentZeroOrOne ==
    ((branch = "similar" \/ pc = "scan") /\ future_date # NaT) =>
        /\ last_year_date = future_date - 365
        /\ years_diff = YearOf(future_date) - YearOf(future_date - 365)
        /\ years_diff \in {0, 1}
        /\ (years_diff = 0) <=>
              (MonthOf(future_date) = 12 /\ DayOf(future_date) = 31 /\ IsLeap(YearOf(future_date)))
        /\ trend_factor = (IF years_diff = 0 THEN Rat(1, 1) ELSE Rat(11, 10))
        /\ exponents_seen \subseteq {0, 1}

C9_Witness ==
    /\ pc = "scan"
    /\ future_date = Ymd2Ord(2025, 1, 1)
    /\ years_diff = 1
    /\ exponents_seen = {0, 1}

(***************************************************************************)
(* C10: without similar records base_pred is the all-history mean of the   *)
(* target's weekday when the series has a record on it and recent_avg *    *)
(* 0.9 otherwise; the value before the floor is base_pred * seasonal       *)
(* factor, no trend, and the same floor correction applies.                *)
(***************************************************************************)
C10_FallbackBranch ==
    (NonEmptySeries /\ PointComputed) =>
        LET onday == WeekdayIdx
        IN  /\ (branch \in {"weekday", "recent"}) <=> (similar_dates = <<>>)
            /\ branch = "weekday" =>
                  /\ onday # {}
                  /\ base_pred = Rat(SumOverIdx(store_data, onday, FALSE), Cardinality(onday))
            /\ branch = "recent" =>
                  /\ onday = {}
                  /\ base_pred = RMul(recent_avg, Rat(9, 10))
            /\ branch \in {"weekday", "recent"} =>
                  pred_value = Floored(RMul(base_pred, seasonal_factor))

C10_Witness ==
    /\ branch = "recent"
    /\ NonEmptySeries
    /\ RLess(Rat(0, 1), recent_avg)
    /\ InSeason(future_date)
    /\ trend_factor = Rat(11, 10)
    /\ pred_value = RMul(RMul(recent_avg, Rat(9, 10)), seasonal_factor)

====
